---- MODULE Spec2Model ----
(***************************************************************************)
(* The database test harness of the tutorial "Real World Unit Testing with *)
(* NodeJS": db.js (clientCache, createClient), helper.js (insertResource,  *)
(* dropResourceCollections, aggregate), test-setup.js and the test file    *)
(* unit/queries/getActiveSubscribers.js, run against the MongoDB driver.   *)
(*                                                                         *)
(* JavaScript runs one piece of code at a time: an async function runs     *)
(* without interruption up to its next await, and resumes in one piece     *)
(* when the awaited driver request is answered.  A flow is one caller; a   *)
(* driver request travels in pending[f] from the moment it is issued until *)
(* the driver answers it.  The driver and the database are outside the     *)
(* repository: a request is answered with success when the database's      *)
(* rules allow it, and any request may be answered with a failure.         *)
(***************************************************************************)
EXTENDS Naturals, Sequences, FiniteSets, TLC

VARIABLES
  clientCache,  \* db.js clientCache: address -> cached {client, db} or NoHandle
  sessions,     \* driver: the sessions MongoClient.connect has opened, by client id
  store,        \* database: collection name -> its documents (<<>>: no such collection)
  call,         \* per flow: the helper call it is suspended in (or Idle)
  pending,      \* per flow: the driver requests issued and not yet answered
  started,      \* number of calls started so far
  mode,         \* "serial": one call at a time; "flows": calls of several flows
                \* interleave; "suite": the calls of the tutorial's test run
  firstReturn,  \* history: address -> the handle the first returning createClient gave
  laterReturns, \* history: address -> the handles every later createClient gave
  last,         \* history: the call that finished last, with its arguments and result
  dropLog,      \* history: per flow, the drops its last dropResourceCollections issued
  runner        \* the test run: the hook or test it is at, test-setup.js's client, the
                \* test file's db, and the verdict of each test

vars == <<clientCache, sessions, store, call, pending, started, mode,
          firstReturn, laterReturns, last, dropLog, runner>>

-----------------------------------------------------------------------------
(* Bounds of the model *)

\* calls started in one behaviour
MaxCalls == 3

\* longest collections argument of dropResourceCollections
MaxDropList == 2

-----------------------------------------------------------------------------
(* Values *)

dbUrl == "mongodb://localhost:27017/maxfitness"

otherUrl == "mongodb://staging:27017/maxfitness"

Addresses == {dbUrl, otherUrl}

Flows == {"f1", "f2"}

\* the caller under serial scheduling
mainFlow == "f1"

Collections == {"member", "subscription"}

\* The two wrapper objects one successful connect creates: the literal stored in
\* the cache and the literal returned to the caller.
Handle(cid, site) == [obj |-> <<cid, site>>, client |-> cid, db |-> cid]

NoHandle == [obj |-> <<0, "none">>, client |-> 0, db |-> 0]

\* options are maps from option name to value; Undefined is a call without options
Undefined == <<>>

OptionArgs == {Undefined, [useNewUrlParser |-> "false", poolSize |-> "5"]}

\* the literal written with the spread last: { useNewUrlParser: true,
\* useUnifiedTopology: true, ...options }
connectionOpts_CallerWins(options) ==
  LET forced == [useNewUrlParser |-> "true", useUnifiedTopology |-> "true"]
      spread == IF options = Undefined THEN {} ELSE DOMAIN options
  IN  [k \in spread \cup DOMAIN forced |->
         IF k \in spread THEN options[k] ELSE forced[k]]

\* { ...options, useNewUrlParser: true, useUnifiedTopology: true }
connectionOpts(options) ==
  LET forced == [useNewUrlParser |-> "true", useUnifiedTopology |-> "true"]
      spread == IF options = Undefined THEN {} ELSE DOMAIN options
  IN  [k \in spread \cup DOMAIN forced |->
         IF k \in DOMAIN forced THEN forced[k] ELSE options[k]]

Member(id, active) == [_id |-> id, active |-> active]

Subscription(id, active, ref) == [_id |-> id, active |-> active, member |-> [reference |-> ref]]

MemberArgs == {Member("M1", TRUE), Member("M1", FALSE), Member("M2", TRUE)}

SubscriptionArgs ==
  {Subscription("S1", TRUE, "M1"), Subscription("S1", FALSE, "M1"), Subscription("S1", TRUE, "M2")}

DocArgs(coll) == IF coll = "member" THEN MemberArgs ELSE SubscriptionArgs

BatchArgs(coll) ==
  IF coll = "member"
  THEN {<<Member("M2", TRUE)>>, <<Member("M1", TRUE), Member("M2", TRUE)>>,
        <<Member("M2", TRUE), Member("M1", FALSE)>>}
  ELSE {<<Subscription("S1", TRUE, "M1")>>,
        <<Subscription("S1", TRUE, "M2"), Subscription("S1", TRUE, "M1")>>}

\* resource arguments of insertResource: one document, or an array of documents
ResourceArgs(coll) ==
  {[isArray |-> FALSE, docs |-> <<d>>] : d \in DocArgs(coll)}
    \cup {[isArray |-> TRUE, docs |-> <<>>]}
    \cup {[isArray |-> TRUE, docs |-> b] : b \in BatchArgs(coll)}

\* collections arguments of dropResourceCollections
CollectionsArgs == UNION {[1..n -> Collections] : n \in 0..MaxDropList}

\* the aggregation stages of src/queries/getActiveSubscribers.json
getActiveSubscribers ==
  <<"$match active", "$lookup subscription", "$match subscriptions.active", "$project _id">>

matchAll == <<>>

PipelineArgs == {matchAll, getActiveSubscribers}

\* a suspended call: its arguments (options as the caller gave them; isArray:
\* the resource is an array), the position of its loop, and (history) the
\* documents an insertResource had just returned for when the call was made
Idle == [op |-> "idle", url |-> "", options |-> <<>>, db |-> 0, coll |-> "", docs |-> <<>>,
         isArray |-> FALSE, pipeline |-> <<>>, colls |-> <<>>, i |-> 0, fresh |-> <<>>]

Req(kind, url, opts, client, coll, docs, pipeline, awaited) ==
  [kind |-> kind, url |-> url, opts |-> opts, client |-> client, coll |-> coll,
   docs |-> docs, pipeline |-> pipeline, awaited |-> awaited]

DropReq(db, coll) == Req("drop", "", <<>>, db, coll, <<>>, <<>>, TRUE)

\* a finished call: its arguments as the caller gave them, how it ended
\* ("returned" or "threw"), what it returned, the error it threw and, for a
\* handle, whether its session was open when the call returned it
Finished(c, result, handle, value) ==
  [op |-> c.op, url |-> c.url, coll |-> c.coll, docs |-> c.docs, pipeline |-> c.pipeline,
   colls |-> c.colls, fresh |-> c.fresh, result |-> result, handle |-> handle, value |-> value,
   error |-> "none", connected |-> FALSE]

NoCall == Finished([Idle EXCEPT !.op = "none"], "none", NoHandle, <<>>)

NoDrops == [colls |-> <<>>, events |-> <<>>, ended |-> "none"]

Suspended(f) == call[f].op # "idle"

\* A new call may start: the caller is not inside a call; under serial
\* scheduling and in the test run there is one caller.
MayStart(f) ==
  /\ ~Suspended(f)
  /\ mode # "suite" => started < MaxCalls
  /\ mode # "flows" => f = mainFlow

IsOpen(cid) == cid \in DOMAIN sessions /\ sessions[cid].closes = 0

Range(s) == {s[i] : i \in DOMAIN s}

-----------------------------------------------------------------------------
(* The database, as the driver's requests see it *)

Ids(docs) == {docs[i]._id : i \in DOMAIN docs}

\* position of the first document of the batch whose _id is already taken, or 0
FirstDup(existing, docs) ==
  LET dups == {i \in DOMAIN docs :
                 docs[i]._id \in Ids(existing) \cup {docs[j]._id : j \in 1..(i-1)}}
  IN  IF dups = {} THEN 0 ELSE CHOOSE i \in dups : \A j \in dups : i <= j

RunStage(stage, docs, st) ==
  CASE stage = "$match active" ->
         SelectSeq(docs, LAMBDA d : "active" \in DOMAIN d /\ d.active = TRUE)
    [] stage = "$lookup subscription" ->
         [i \in DOMAIN docs |->
            [_id |-> docs[i]._id,
             active |-> "active" \in DOMAIN docs[i] /\ docs[i].active = TRUE,
             subscriptions |-> SelectSeq(st["subscription"],
                                 LAMBDA s : "member" \in DOMAIN s
                                            /\ s.member.reference = docs[i]._id)]]
    [] stage = "$match subscriptions.active" ->
         SelectSeq(docs, LAMBDA d : \E k \in DOMAIN d.subscriptions :
                                      d.subscriptions[k].active = TRUE)
    [] stage = "$project _id" ->
         [i \in DOMAIN docs |-> [_id |-> docs[i]._id]]

RECURSIVE RunStages(_, _, _)
RunStages(stages, docs, st) ==
  IF stages = <<>> THEN docs
  ELSE RunStages(Tail(stages), RunStage(Head(stages), docs, st), st)

\* db.collection(coll).aggregate(pipeline).toArray()
RunPipeline(pipeline, coll, st) == RunStages(pipeline, st[coll], st)

-----------------------------------------------------------------------------
(* db.js: createClient *)

\* createClient without its cache lookup: every call connects
createClient_NoLookup(f, url, options) ==
  /\ MayStart(f)
  /\ started' = started + 1
  /\ call' = [call EXCEPT ![f] = [Idle EXCEPT !.op = "createClient", !.url = url,
                                                !.options = options]]
  /\ pending' = [pending EXCEPT ![f] = @ \cup
       {Req("connect", url, connectionOpts(options), 0, "", <<>>, <<>>, TRUE)}]
  /\ UNCHANGED <<clientCache, sessions, store, mode, firstReturn, laterReturns, last, dropLog>>

\* createClient that uses the cache only for calls without options
createClient_OptionsBypass(f, url, options) ==
  /\ MayStart(f)
  /\ started' = started + 1
  /\ LET cacheKey == url IN
       IF clientCache[cacheKey] # NoHandle /\ options = Undefined
       THEN /\ IF firstReturn[url] = NoHandle
               THEN /\ firstReturn' = [firstReturn EXCEPT ![url] = clientCache[cacheKey]]
                    /\ UNCHANGED laterReturns
               ELSE /\ laterReturns' = [laterReturns EXCEPT ![url] = @ \cup {clientCache[cacheKey]}]
                    /\ UNCHANGED firstReturn
            /\ last' = [Finished([Idle EXCEPT !.op = "createClient", !.url = url], "returned",
                                 clientCache[cacheKey], <<>>)
                          EXCEPT !.connected = IsOpen(clientCache[cacheKey].client)]
            /\ UNCHANGED <<call, pending>>
       ELSE /\ call' = [call EXCEPT ![f] = [Idle EXCEPT !.op = "createClient", !.url = cacheKey,
                                                          !.options = options]]
            /\ pending' = [pending EXCEPT ![f] = @ \cup
                 {Req("connect", url, connectionOpts(options), 0, "", <<>>, <<>>, TRUE)}]
            /\ UNCHANGED <<firstReturn, laterReturns, last>>
  /\ UNCHANGED <<clientCache, sessions, store, mode, dropLog>>

\* createClient that connects again when the cached client is closed
createClient_ReconnectsClosed(f, url, options) ==
  /\ MayStart(f)
  /\ started' = started + 1
  /\ LET cacheKey == url IN
       IF clientCache[cacheKey] # NoHandle /\ IsOpen(clientCache[cacheKey].client)
       THEN /\ IF firstReturn[url] = NoHandle
               THEN /\ firstReturn' = [firstReturn EXCEPT ![url] = clientCache[cacheKey]]
                    /\ UNCHANGED laterReturns
               ELSE /\ laterReturns' = [laterReturns EXCEPT ![url] = @ \cup {clientCache[cacheKey]}]
                    /\ UNCHANGED firstReturn
            /\ last' = [Finished([Idle EXCEPT !.op = "createClient", !.url = url], "returned",
                                 clientCache[cacheKey], <<>>)
                          EXCEPT !.connected = IsOpen(clientCache[cacheKey].client)]
            /\ UNCHANGED <<call, pending>>
       ELSE /\ call' = [call EXCEPT ![f] = [Idle EXCEPT !.op = "createClient", !.url = cacheKey,
                                                          !.options = options]]
            /\ pending' = [pending EXCEPT ![f] = @ \cup
                 {Req("connect", url, connectionOpts(options), 0, "", <<>>, <<>>, TRUE)}]
            /\ UNCHANGED <<firstReturn, laterReturns, last>>
  /\ UNCHANGED <<clientCache, sessions, store, mode, dropLog>>

\* cache hit: return clientCache[cacheKey]
\* cache miss: await MongoClient.connect(url, connectionOpts)
createClient(f, url, options) ==
  /\ MayStart(f)
  /\ started' = started + 1
  /\ LET cacheKey == url IN
       IF clientCache[cacheKey] # NoHandle
       THEN /\ IF firstReturn[url] = NoHandle
               THEN /\ firstReturn' = [firstReturn EXCEPT ![url] = clientCache[cacheKey]]
                    /\ UNCHANGED laterReturns
               ELSE /\ laterReturns' = [laterReturns EXCEPT ![url] = @ \cup {clientCache[cacheKey]}]
                    /\ UNCHANGED firstReturn
            /\ last' = [Finished([Idle EXCEPT !.op = "createClient", !.url = url], "returned",
                                 clientCache[cacheKey], <<>>)
                          EXCEPT !.connected = IsOpen(clientCache[cacheKey].client)]
            /\ UNCHANGED <<call, pending>>
       ELSE /\ call' = [call EXCEPT ![f] = [Idle EXCEPT !.op = "createClient", !.url = cacheKey,
                                                          !.options = options]]
            /\ pending' = [pending EXCEPT ![f] = @ \cup
                 {Req("connect", url, connectionOpts(options), 0, "", <<>>, <<>>, TRUE)}]
            /\ UNCHANGED <<firstReturn, laterReturns, last>>
  /\ UNCHANGED <<clientCache, sessions, store, mode, dropLog>>

\* the driver opens the session; createClient resumes, stores {client, db} in the
\* cache and returns a second {client, db}
ConnectOk(f) ==
  \E r \in pending[f] :
    /\ r.kind = "connect"
    /\ LET cid == Len(sessions) + 1
           url == call[f].url
       IN
         /\ sessions' = Append(sessions, [addr |-> r.url, closes |-> 0])
         /\ pending' = [pending EXCEPT ![f] = @ \ {r}]
         /\ clientCache' = [clientCache EXCEPT ![url] = Handle(cid, "cached")]
         /\ IF firstReturn[url] = NoHandle
            THEN /\ firstReturn' = [firstReturn EXCEPT ![url] = Handle(cid, "returned")]
                 /\ UNCHANGED laterReturns
            ELSE /\ laterReturns' = [laterReturns EXCEPT ![url] = @ \cup {Handle(cid, "returned")}]
                 /\ UNCHANGED firstReturn
         /\ call' = [call EXCEPT ![f] = Idle]
         /\ last' = [Finished(call[f], "returned", Handle(cid, "returned"), <<>>)
                       EXCEPT !.connected = TRUE]
    /\ UNCHANGED <<store, started, mode, dropLog, runner>>

\* a createClient that stores a handle in the cache before it knows the
\* connect succeeded, and leaves it there when the connect is rejected
ConnectFail_Cached(f) ==
  \E r \in pending[f] :
    /\ r.kind = "connect"
    /\ pending' = [pending EXCEPT ![f] = @ \ {r}]
    /\ call' = [call EXCEPT ![f] = Idle]
    /\ clientCache' = [clientCache EXCEPT ![call[f].url] = Handle(0, "cached")]
    /\ last' = Finished(call[f], "threw", NoHandle, <<>>)
    /\ UNCHANGED <<sessions, store, started, mode, firstReturn, laterReturns, dropLog, runner>>

\* MongoClient.connect rejects: the await throws out of createClient
ConnectFail(f) ==
  \E r \in pending[f] :
    /\ r.kind = "connect"
    /\ pending' = [pending EXCEPT ![f] = @ \ {r}]
    /\ call' = [call EXCEPT ![f] = Idle]
    /\ last' = Finished(call[f], "threw", NoHandle, <<>>)
    /\ UNCHANGED <<clientCache, sessions, store, started, mode, firstReturn, laterReturns, dropLog, runner>>

\* test-setup.js: client.close(), which nothing awaits
clientClose(f, client) ==
  /\ MayStart(f)
  /\ started' = started + 1
  /\ pending' = [pending EXCEPT ![f] = @ \cup
       {Req("close", "", <<>>, client, "", <<>>, <<>>, FALSE)}]
  /\ UNCHANGED <<clientCache, sessions, store, call, mode, firstReturn, laterReturns, last, dropLog>>

CloseDone(f) ==
  \E r \in pending[f] :
    /\ r.kind = "close"
    /\ pending' = [pending EXCEPT ![f] = @ \ {r}]
    /\ sessions' = [sessions EXCEPT ![r.client].closes = @ + 1]
    /\ UNCHANGED <<clientCache, store, call, started, mode, firstReturn, laterReturns, last, dropLog, runner>>

-----------------------------------------------------------------------------
(* helper.js: insertResource *)

\* insertResource without its awaits: the insert is issued and the call returns
insertResource_NoAwait(f, db, collectionName, resource) ==
  /\ MayStart(f)
  /\ started' = started + 1
  /\ pending' = [pending EXCEPT ![f] = @ \cup
       {Req(IF resource.isArray THEN "insertMany" ELSE "insertOne", "", <<>>, db,
            collectionName, resource.docs, <<>>, FALSE)}]
  /\ last' = Finished([Idle EXCEPT !.op = "insertResource", !.db = db,
                                   !.coll = collectionName, !.docs = resource.docs],
                      "returned", NoHandle, <<>>)
  /\ UNCHANGED <<clientCache, sessions, store, call, mode, firstReturn, laterReturns, dropLog>>

\* insertResource without the Array.isArray test: insertOne whatever the resource
insertResource_AlwaysInsertOne(f, db, collectionName, resource) ==
  /\ MayStart(f)
  /\ started' = started + 1
  /\ call' = [call EXCEPT ![f] = [Idle EXCEPT !.op = "insertResource", !.db = db,
                                    !.coll = collectionName, !.docs = resource.docs,
                                    !.isArray = resource.isArray]]
  /\ pending' = [pending EXCEPT ![f] = @ \cup
       {Req("insertOne", "", <<>>, db, collectionName, resource.docs, <<>>, TRUE)}]
  /\ UNCHANGED <<clientCache, sessions, store, mode, firstReturn, laterReturns, last, dropLog>>

\* insertResource that hands only the first document of an array to insertMany
insertResource_FirstOnly(f, db, collectionName, resource) ==
  /\ MayStart(f)
  /\ started' = started + 1
  /\ call' = [call EXCEPT ![f] = [Idle EXCEPT !.op = "insertResource", !.db = db,
                                    !.coll = collectionName, !.docs = resource.docs,
                                    !.isArray = resource.isArray]]
  /\ pending' = [pending EXCEPT ![f] = @ \cup
       {Req(IF resource.isArray THEN "insertMany" ELSE "insertOne", "", <<>>, db, collectionName,
            IF Len(resource.docs) <= 1 THEN resource.docs ELSE <<resource.docs[1]>>,
            <<>>, TRUE)}]
  /\ UNCHANGED <<clientCache, sessions, store, mode, firstReturn, laterReturns, last, dropLog>>

\* Array.isArray(resource) ? await insertMany(resource) : await insertOne(resource)
insertResource(f, db, collectionName, resource) ==
  /\ MayStart(f)
  /\ started' = started + 1
  /\ call' = [call EXCEPT ![f] = [Idle EXCEPT !.op = "insertResource", !.db = db,
                                    !.coll = collectionName, !.docs = resource.docs,
                                    !.isArray = resource.isArray]]
  /\ pending' = [pending EXCEPT ![f] = @ \cup
       {Req(IF resource.isArray THEN "insertMany" ELSE "insertOne", "", <<>>, db,
            collectionName, resource.docs, <<>>, TRUE)}]
  /\ UNCHANGED <<clientCache, sessions, store, mode, firstReturn, laterReturns, last, dropLog>>

\* the error the driver rejects an insert with
InsertError(r) ==
  IF IsOpen(r.client) /\ FirstDup(store[r.coll], r.docs) > 0
  THEN "E11000 duplicate key" ELSE "insert failed"

\* the database stores the documents; the await ends and insertResource returns
InsertOk(f) ==
  \E r \in pending[f] :
    /\ r.kind \in {"insertOne", "insertMany"}
    /\ IsOpen(r.client)
    /\ FirstDup(store[r.coll], r.docs) = 0
    /\ r.docs # <<>>
    /\ store' = [store EXCEPT ![r.coll] = @ \o r.docs]
    /\ pending' = [pending EXCEPT ![f] = @ \ {r}]
    /\ IF r.awaited
       THEN /\ call' = [call EXCEPT ![f] = Idle]
            /\ last' = Finished(call[f], "returned", NoHandle, <<>>)
       ELSE UNCHANGED <<call, last>>
    /\ UNCHANGED <<clientCache, sessions, started, mode, firstReturn, laterReturns, dropLog, runner>>

\* an insertResource that catches the rejected insert and returns
InsertFail_Swallowed(f) ==
  \E r \in pending[f] :
    /\ r.kind \in {"insertOne", "insertMany"}
    /\ LET k == FirstDup(store[r.coll], r.docs) IN
         store' = IF IsOpen(r.client) /\ k > 0
                  THEN [store EXCEPT ![r.coll] = @ \o SubSeq(r.docs, 1, k - 1)]
                  ELSE store
    /\ pending' = [pending EXCEPT ![f] = @ \ {r}]
    /\ IF r.awaited
       THEN /\ call' = [call EXCEPT ![f] = Idle]
            /\ last' = Finished(call[f], "returned", NoHandle, <<>>)
       ELSE UNCHANGED <<call, last>>
    /\ UNCHANGED <<clientCache, sessions, started, mode, firstReturn, laterReturns, dropLog, runner>>

\* the insert is rejected (a duplicate _id stops an ordered batch at that
\* document, the ones before it stay inserted); the await throws
InsertFail(f) ==
  \E r \in pending[f] :
    /\ r.kind \in {"insertOne", "insertMany"}
    /\ LET k == FirstDup(store[r.coll], r.docs) IN
         store' = IF IsOpen(r.client) /\ k > 0
                  THEN [store EXCEPT ![r.coll] = @ \o SubSeq(r.docs, 1, k - 1)]
                  ELSE store
    /\ pending' = [pending EXCEPT ![f] = @ \ {r}]
    /\ IF r.awaited
       THEN /\ call' = [call EXCEPT ![f] = Idle]
            /\ last' = [Finished(call[f], "threw", NoHandle, <<>>) EXCEPT !.error = InsertError(r)]
       ELSE UNCHANGED <<call, last>>
    /\ UNCHANGED <<clientCache, sessions, started, mode, firstReturn, laterReturns, dropLog, runner>>

-----------------------------------------------------------------------------
(* helper.js: aggregate *)

\* history: the documents of the insertResource into coll that returned last, if
\* that is the call that finished last
JustInserted(coll) ==
  IF last.op = "insertResource" /\ last.result = "returned" /\ last.coll = coll
  THEN last.docs ELSE <<>>

\* aggregate that does not hand its pipeline to the driver
aggregate_NoPipeline(f, db, collectionName, pipeline) ==
  /\ MayStart(f)
  /\ started' = started + 1
  /\ call' = [call EXCEPT ![f] =
       [Idle EXCEPT !.op = "aggregate", !.db = db, !.coll = collectionName,
                    !.pipeline = pipeline, !.fresh = JustInserted(collectionName)]]
  /\ pending' = [pending EXCEPT ![f] = @ \cup
       {Req("aggregate", "", <<>>, db, collectionName, <<>>, <<>>, TRUE)}]
  /\ UNCHANGED <<clientCache, sessions, store, mode, firstReturn, laterReturns, last, dropLog>>

\* return await db.collection(collectionName).aggregate(pipeline).toArray()
aggregate(f, db, collectionName, pipeline) ==
  /\ MayStart(f)
  /\ started' = started + 1
  /\ call' = [call EXCEPT ![f] =
       [Idle EXCEPT !.op = "aggregate", !.db = db, !.coll = collectionName,
                    !.pipeline = pipeline, !.fresh = JustInserted(collectionName)]]
  /\ pending' = [pending EXCEPT ![f] = @ \cup
       {Req("aggregate", "", <<>>, db, collectionName, <<>>, pipeline, TRUE)}]
  /\ UNCHANGED <<clientCache, sessions, store, mode, firstReturn, laterReturns, last, dropLog>>

\* an aggregate that returns the result in the opposite order
AggregateOk_Reversed(f) ==
  \E r \in pending[f] :
    /\ r.kind = "aggregate"
    /\ IsOpen(r.client)
    /\ pending' = [pending EXCEPT ![f] = @ \ {r}]
    /\ call' = [call EXCEPT ![f] = Idle]
    /\ LET res == RunPipeline(r.pipeline, r.coll, store) IN
         last' = Finished(call[f], "returned", NoHandle,
                          [i \in DOMAIN res |-> res[Len(res) + 1 - i]])
    /\ UNCHANGED <<clientCache, sessions, store, started, mode, firstReturn, laterReturns, dropLog, runner>>

\* the database runs the pipeline; toArray() resolves with all of its result
AggregateOk(f) ==
  \E r \in pending[f] :
    /\ r.kind = "aggregate"
    /\ IsOpen(r.client)
    /\ pending' = [pending EXCEPT ![f] = @ \ {r}]
    /\ call' = [call EXCEPT ![f] = Idle]
    /\ last' = Finished(call[f], "returned", NoHandle, RunPipeline(r.pipeline, r.coll, store))
    /\ UNCHANGED <<clientCache, sessions, store, started, mode, firstReturn, laterReturns, dropLog, runner>>

\* the error the driver rejects an aggregate with
AggregateError(r) == IF IsOpen(r.client) THEN "aggregate failed" ELSE "session closed"

\* the pipeline fails; toArray() rejects and the await throws out of aggregate
AggregateFail(f) ==
  \E r \in pending[f] :
    /\ r.kind = "aggregate"
    /\ pending' = [pending EXCEPT ![f] = @ \ {r}]
    /\ call' = [call EXCEPT ![f] = Idle]
    /\ last' = [Finished(call[f], "threw", NoHandle, <<>>) EXCEPT !.error = AggregateError(r)]
    /\ UNCHANGED <<clientCache, sessions, store, started, mode, firstReturn, laterReturns, dropLog, runner>>

-----------------------------------------------------------------------------
(* helper.js: dropResourceCollections *)

\* the loop written with an index that starts one too far
dropResourceCollections_FromSecond(f, db, collections) ==
  /\ MayStart(f)
  /\ started' = started + 1
  /\ IF Len(collections) < 2
     THEN /\ dropLog' = [dropLog EXCEPT ![f] =
                           [colls |-> collections, events |-> <<>>, ended |-> "returned"]]
          /\ last' = Finished([Idle EXCEPT !.op = "dropResourceCollections",
                                           !.colls = collections], "returned", NoHandle, <<>>)
          /\ UNCHANGED <<call, pending>>
     ELSE /\ call' = [call EXCEPT ![f] =
                        [Idle EXCEPT !.op = "dropResourceCollections", !.db = db,
                                     !.colls = collections, !.i = 2]]
          /\ pending' = [pending EXCEPT ![f] = @ \cup {DropReq(db, collections[2])}]
          /\ dropLog' = [dropLog EXCEPT ![f] =
                           [colls |-> collections,
                            events |-> << <<"issue", collections[2]>> >>,
                            ended |-> "running"]]
          /\ UNCHANGED last
  /\ UNCHANGED <<clientCache, sessions, store, mode, firstReturn, laterReturns>>

\* the loop written with forEach: every drop is issued at once, none is awaited
dropResourceCollections_ForEach(f, db, collections) ==
  /\ MayStart(f)
  /\ started' = started + 1
  /\ pending' = [pending EXCEPT ![f] = @ \cup
       {[DropReq(db, collections[k]) EXCEPT !.awaited = FALSE] : k \in DOMAIN collections}]
  /\ dropLog' = [dropLog EXCEPT ![f] =
                   [colls |-> collections,
                    events |-> [k \in DOMAIN collections |-> <<"issue", collections[k]>>],
                    ended |-> "returned"]]
  /\ last' = Finished([Idle EXCEPT !.op = "dropResourceCollections", !.colls = collections],
                      "returned", NoHandle, <<>>)
  /\ UNCHANGED <<clientCache, sessions, store, call, mode, firstReturn, laterReturns>>

\* for (const collection of collections) { await db.dropCollection(collection); }
\* up to the first await
dropResourceCollections(f, db, collections) ==
  /\ MayStart(f)
  /\ started' = started + 1
  /\ IF collections = <<>>
     THEN /\ dropLog' = [dropLog EXCEPT ![f] =
                           [colls |-> collections, events |-> <<>>, ended |-> "returned"]]
          /\ last' = Finished([Idle EXCEPT !.op = "dropResourceCollections"], "returned",
                              NoHandle, <<>>)
          /\ UNCHANGED <<call, pending>>
     ELSE /\ call' = [call EXCEPT ![f] =
                        [Idle EXCEPT !.op = "dropResourceCollections", !.db = db,
                                     !.colls = collections, !.i = 1]]
          /\ pending' = [pending EXCEPT ![f] = @ \cup {DropReq(db, collections[1])}]
          /\ dropLog' = [dropLog EXCEPT ![f] =
                           [colls |-> collections,
                            events |-> << <<"issue", collections[1]>> >>,
                            ended |-> "running"]]
          /\ UNCHANGED last
  /\ UNCHANGED <<clientCache, sessions, store, mode, firstReturn, laterReturns>>

\* the loop after a drop is answered: the next iteration issues the next drop,
\* or the loop is over and the call returns
DropResumed(f, r) ==
  IF ~(r.awaited /\ call[f].op = "dropResourceCollections")
  THEN /\ pending' = [pending EXCEPT ![f] = @ \ {r}]
       /\ dropLog' = [dropLog EXCEPT ![f].events = Append(@, <<"done", r.coll>>)]
       /\ UNCHANGED <<call, last>>
  ELSE IF call[f].i < Len(call[f].colls)
  THEN /\ call' = [call EXCEPT ![f].i = @ + 1]
       /\ pending' = [pending EXCEPT ![f] =
                        (@ \ {r}) \cup {DropReq(call[f].db, call[f].colls[call[f].i + 1])}]
       /\ dropLog' = [dropLog EXCEPT ![f].events =
                        @ \o << <<"done", r.coll>>, <<"issue", call[f].colls[call[f].i + 1]>> >>]
       /\ UNCHANGED last
  ELSE /\ call' = [call EXCEPT ![f] = Idle]
       /\ pending' = [pending EXCEPT ![f] = @ \ {r}]
       /\ dropLog' = [dropLog EXCEPT ![f].events = Append(@, <<"done", r.coll>>),
                                     ![f].ended = "returned"]
       /\ last' = Finished(call[f], "returned", NoHandle, <<>>)

\* a cleanup that only looks the collection up (db.collection(name)) where the
\* helper drops it
DropOk_LooksUp(f) ==
  \E r \in pending[f] :
    /\ r.kind = "drop"
    /\ IsOpen(r.client)
    /\ DropResumed(f, r)
    /\ UNCHANGED <<clientCache, sessions, store, started, mode, firstReturn, laterReturns, runner>>

\* the database removes the collection and its documents
DropOk(f) ==
  \E r \in pending[f] :
    /\ r.kind = "drop"
    /\ IsOpen(r.client)
    /\ store' = [store EXCEPT ![r.coll] = <<>>]
    /\ DropResumed(f, r)
    /\ UNCHANGED <<clientCache, sessions, started, mode, firstReturn, laterReturns, runner>>

\* the error of a rejected drop: "ns not found" for a collection that does not
\* exist, any other failure otherwise
DropError(r) == IF IsOpen(r.client) /\ store[r.coll] = <<>> THEN "ns not found" ELSE "failed"

\* an error path that throws the cached connections away
DropFail_CacheReset(f) ==
  \E r \in pending[f] :
    /\ r.kind = "drop"
    /\ call[f].op = "dropResourceCollections"
    /\ pending' = [pending EXCEPT ![f] = @ \ {r}]
    /\ call' = [call EXCEPT ![f] = Idle]
    /\ clientCache' = [a \in Addresses |-> NoHandle]
    /\ dropLog' = [dropLog EXCEPT ![f].events = Append(@, <<DropError(r), r.coll>>),
                                  ![f].ended = "threw"]
    /\ last' = Finished(call[f], "threw", NoHandle, <<>>)
    /\ UNCHANGED <<sessions, store, started, mode, firstReturn, laterReturns, runner>>

\* a loop that catches the rejected drop and goes on with the next name
DropFail_Caught(f) ==
  \E r \in pending[f] :
    /\ r.kind = "drop"
    /\ call[f].op = "dropResourceCollections"
    /\ IF call[f].i < Len(call[f].colls)
       THEN /\ call' = [call EXCEPT ![f].i = @ + 1]
            /\ pending' = [pending EXCEPT ![f] =
                 (@ \ {r}) \cup {DropReq(call[f].db, call[f].colls[call[f].i + 1])}]
            /\ dropLog' = [dropLog EXCEPT ![f].events =
                 @ \o << <<DropError(r), r.coll>>, <<"issue", call[f].colls[call[f].i + 1]>> >>]
            /\ UNCHANGED last
       ELSE /\ call' = [call EXCEPT ![f] = Idle]
            /\ pending' = [pending EXCEPT ![f] = @ \ {r}]
            /\ dropLog' = [dropLog EXCEPT ![f].events = Append(@, <<DropError(r), r.coll>>),
                                          ![f].ended = "returned"]
            /\ last' = Finished(call[f], "returned", NoHandle, <<>>)
    /\ UNCHANGED <<clientCache, sessions, store, started, mode, firstReturn, laterReturns, runner>>

\* the drop is rejected; the await throws out of the loop
DropFail(f) ==
  \E r \in pending[f] :
    /\ r.kind = "drop"
    /\ pending' = [pending EXCEPT ![f] = @ \ {r}]
    /\ IF r.awaited /\ call[f].op = "dropResourceCollections"
       THEN /\ call' = [call EXCEPT ![f] = Idle]
            /\ dropLog' = [dropLog EXCEPT ![f].events = Append(@, <<DropError(r), r.coll>>),
                                          ![f].ended = "threw"]
            /\ last' = Finished(call[f], "threw", NoHandle, <<>>)
       ELSE /\ dropLog' = [dropLog EXCEPT ![f].events = Append(@, <<DropError(r), r.coll>>)]
            /\ UNCHANGED <<call, last>>
    /\ UNCHANGED <<clientCache, sessions, store, started, mode, firstReturn, laterReturns, runner>>

-----------------------------------------------------------------------------
(* Callers *)

\* the test run before its first hook (history: hookFailed, a hook of the run
\* has thrown; leftovers, the database held documents when the run began)
NotStarted ==
  [at |-> "root before", awaiting |-> FALSE, client |-> 0, db |-> 0, closeCalls |-> 0,
   verdict |-> [t \in {"inactive it", "subscription it"} |-> "not run"],
   hookFailed |-> FALSE, leftovers |-> FALSE]

\* what the database may hold when the process starts
InitStores ==
  { [c \in Collections |-> <<>>],
    [member |-> <<Member("M1", FALSE)>>, subscription |-> <<>>],
    [member |-> <<Member("M1", TRUE)>>, subscription |-> <<Subscription("S1", TRUE, "M1")>>] }

InitWith(m, stores) ==
  /\ clientCache = [a \in Addresses |-> NoHandle]
  /\ sessions = <<>>
  /\ store \in stores
  /\ call = [f \in Flows |-> Idle]
  /\ pending = [f \in Flows |-> {}]
  /\ started = 0
  /\ mode = m
  /\ firstReturn = [a \in Addresses |-> NoHandle]
  /\ laterReturns = [a \in Addresses |-> {}]
  /\ last = NoCall
  /\ dropLog = [f \in Flows |-> NoDrops]
  /\ runner = [NotStarted EXCEPT !.at = IF m = "suite" THEN "root before" ELSE "off",
                                 !.leftovers = m = "suite" /\ \E c \in Collections : store[c] # <<>>]

Init == InitWith("serial", InitStores)

InitFlows ==
  InitWith("flows", {[member |-> <<Member("M1", TRUE)>>,
                      subscription |-> <<Subscription("S1", TRUE, "M1")>>]})

Next ==
  \/ \E f \in Flows, url \in Addresses, options \in OptionArgs : createClient(f, url, options) /\ UNCHANGED runner
  \/ \E f \in Flows : ConnectOk(f)
  \/ \E f \in Flows : ConnectFail(f)
  \/ \E f \in Flows, client \in DOMAIN sessions : clientClose(f, client) /\ UNCHANGED runner
  \/ \E f \in Flows : CloseDone(f)
  \/ \E f \in Flows, db \in DOMAIN sessions, c \in Collections :
       \E res \in ResourceArgs(c) : insertResource(f, db, c, res) /\ UNCHANGED runner
  \/ \E f \in Flows : InsertOk(f)
  \/ \E f \in Flows : InsertFail(f)
  \/ \E f \in Flows, db \in DOMAIN sessions, c \in Collections, p \in PipelineArgs :
       aggregate(f, db, c, p) /\ UNCHANGED runner
  \/ \E f \in Flows : AggregateOk(f)
  \/ \E f \in Flows : AggregateFail(f)
  \/ \E f \in Flows, db \in DOMAIN sessions, cs \in CollectionsArgs :
       dropResourceCollections(f, db, cs) /\ UNCHANGED runner
  \/ \E f \in Flows : DropOk(f)
  \/ \E f \in Flows : DropFail(f)

Spec == Init /\ [][Next]_vars

\* several callers at once, each with the arguments of the tutorial's tests
NextFlows ==
  \/ \E f \in Flows, url \in Addresses : createClient(f, url, Undefined) /\ UNCHANGED runner
  \/ \E f \in Flows : ConnectOk(f)
  \/ \E f \in Flows : ConnectFail(f)
  \/ \E f \in Flows, client \in DOMAIN sessions : clientClose(f, client) /\ UNCHANGED runner
  \/ \E f \in Flows : CloseDone(f)
  \/ \E f \in Flows, db \in DOMAIN sessions :
       insertResource(f, db, "member", [isArray |-> FALSE, docs |-> <<Member("M1", TRUE)>>]) /\ UNCHANGED runner
  \/ \E f \in Flows : InsertOk(f)
  \/ \E f \in Flows : InsertFail(f)
  \/ \E f \in Flows, db \in DOMAIN sessions : aggregate(f, db, "member", getActiveSubscribers) /\ UNCHANGED runner
  \/ \E f \in Flows : AggregateOk(f)
  \/ \E f \in Flows : AggregateFail(f)
  \/ \E f \in Flows, db \in DOMAIN sessions, cs \in CollectionsArgs :
       dropResourceCollections(f, db, cs) /\ UNCHANGED runner
  \/ \E f \in Flows : DropOk(f)
  \/ \E f \in Flows : DropFail(f)

SpecFlows == InitFlows /\ [][NextFlows]_vars

-----------------------------------------------------------------------------
(* The test run: test-setup.js and the test file under the test runner, which
   runs the hooks and tests one after the other and waits for each async one.
   A failed before hook skips the tests and inner suites of its suite; the
   suite's after hook runs all the same. *)

\* the runner is at hook or test `at` and has not called it yet
Hook(at) == mode = "suite" /\ runner.at = at /\ ~runner.awaiting

One(doc) == [isArray |-> FALSE, docs |-> <<doc>>]

\* test-setup.js: before(async () => { ({client} = await createClient(dbUrl)); })
rootBefore ==
  /\ Hook("root before")
  /\ createClient(mainFlow, dbUrl, Undefined)
  /\ runner' = [runner EXCEPT !.awaiting = TRUE]

\* 'When a member is not active': before, ({db} = await createClient(dbUrl))
inactiveBefore_createClient ==
  /\ Hook("inactive before createClient")
  /\ createClient(mainFlow, dbUrl, Undefined)
  /\ runner' = [runner EXCEPT !.awaiting = TRUE]

\* 'When a member is not active': before, await insertResource(db, 'member', member)
inactiveBefore_insertResource ==
  /\ Hook("inactive before insertResource")
  /\ insertResource(mainFlow, runner.db, "member", One(Member("M1", FALSE)))
  /\ runner' = [runner EXCEPT !.awaiting = TRUE]

\* it('should return an empty result')
inactiveIt ==
  /\ Hook("inactive it")
  /\ aggregate(mainFlow, runner.db, "member", getActiveSubscribers)
  /\ runner' = [runner EXCEPT !.awaiting = TRUE]

\* an after hook that closes the client as test-setup.js's does
inactiveAfter_ClosesClient ==
  /\ Hook("inactive after")
  /\ clientClose(mainFlow, runner.client)
  /\ runner' = [runner EXCEPT !.awaiting = TRUE, !.closeCalls = @ + 1]

\* 'When a member is not active': after
inactiveAfter ==
  /\ Hook("inactive after")
  /\ dropResourceCollections(mainFlow, runner.db, <<"member">>)
  /\ runner' = [runner EXCEPT !.awaiting = TRUE]

\* 'When a member is active': before
activeBefore ==
  /\ Hook("active before")
  /\ insertResource(mainFlow, runner.db, "member", One(Member("M1", TRUE)))
  /\ runner' = [runner EXCEPT !.awaiting = TRUE]

\* 'and they have an active subscription': before
subscriptionBefore ==
  /\ Hook("subscription before")
  /\ insertResource(mainFlow, runner.db, "subscription", One(Subscription("S1", TRUE, "M1")))
  /\ runner' = [runner EXCEPT !.awaiting = TRUE]

\* it('the query should return the ID of that member')
subscriptionIt ==
  /\ Hook("subscription it")
  /\ aggregate(mainFlow, runner.db, "member", getActiveSubscribers)
  /\ runner' = [runner EXCEPT !.awaiting = TRUE]

\* 'and they have an active subscription': after
subscriptionAfter ==
  /\ Hook("subscription after")
  /\ dropResourceCollections(mainFlow, runner.db, <<"subscription">>)
  /\ runner' = [runner EXCEPT !.awaiting = TRUE]

\* the after hook copied from the inner suite with its collection name
activeAfter_DropsSubscription ==
  /\ Hook("active after")
  /\ dropResourceCollections(mainFlow, runner.db, <<"subscription">>)
  /\ runner' = [runner EXCEPT !.awaiting = TRUE]

\* 'When a member is active': after
activeAfter ==
  /\ Hook("active after")
  /\ dropResourceCollections(mainFlow, runner.db, <<"member">>)
  /\ runner' = [runner EXCEPT !.awaiting = TRUE]

\* test-setup.js: after(() => { client.close(); }), the close not awaited. With
\* client still undefined the hook throws a TypeError and nothing is closed.
rootAfter ==
  /\ Hook("root after")
  /\ IF runner.client # 0
     THEN /\ clientClose(mainFlow, runner.client)
          /\ runner' = [runner EXCEPT !.at = "done", !.closeCalls = @ + 1]
     ELSE /\ runner' = [runner EXCEPT !.at = "done", !.hookFailed = TRUE]
          /\ UNCHANGED <<clientCache, sessions, store, call, pending, started, mode,
                         firstReturn, laterReturns, last, dropLog>>

\* where the run goes once the call of the hook or test it is at has ended
Continue ==
  LET ok == last.result = "returned"
      at == runner.at
      isTest == at \in {"inactive it", "subscription it"}
      to(next) == [runner EXCEPT !.at = next, !.awaiting = FALSE,
                                 !.hookFailed = @ \/ (~ok /\ ~isTest)]
  IN  CASE at = "root before" ->
             IF ok THEN [to("inactive before createClient") EXCEPT !.client = last.handle.client]
                   ELSE to("root after")
        [] at = "inactive before createClient" ->
             IF ok THEN [to("inactive before insertResource") EXCEPT !.db = last.handle.db]
                   ELSE to("inactive after")
        [] at = "inactive before insertResource" ->
             IF ok THEN to("inactive it") ELSE to("inactive after")
        [] at = "inactive it" ->
             [to("inactive after") EXCEPT !.verdict[at] =
                IF ok /\ last.value = <<>> THEN "passed" ELSE "failed"]
        [] at = "inactive after" -> to("active before")
        [] at = "active before" ->
             IF ok THEN to("subscription before") ELSE to("active after")
        [] at = "subscription before" ->
             IF ok THEN to("subscription it") ELSE to("subscription after")
        [] at = "subscription it" ->
             [to("subscription after") EXCEPT !.verdict[at] =
                IF ok /\ last.value = <<[_id |-> "M1"]>> THEN "passed" ELSE "failed"]
        [] at = "subscription after" -> to("active after")
        [] at = "active after" -> to("root after")

\* the awaited call of a hook or test has returned or thrown: the runner moves on
hookSettled ==
  /\ mode = "suite"
  /\ runner.awaiting
  /\ ~Suspended(mainFlow)
  /\ runner' = Continue
  /\ UNCHANGED <<clientCache, sessions, store, call, pending, started, mode,
                 firstReturn, laterReturns, last, dropLog>>

InitSuite == InitWith("suite", InitStores)

NextSuite ==
  \/ rootBefore
  \/ inactiveBefore_createClient
  \/ inactiveBefore_insertResource
  \/ inactiveIt
  \/ inactiveAfter
  \/ activeBefore
  \/ subscriptionBefore
  \/ subscriptionIt
  \/ subscriptionAfter
  \/ activeAfter
  \/ rootAfter
  \/ hookSettled
  \/ ConnectOk(mainFlow)
  \/ ConnectFail(mainFlow)
  \/ CloseDone(mainFlow)
  \/ InsertOk(mainFlow)
  \/ InsertFail(mainFlow)
  \/ AggregateOk(mainFlow)
  \/ AggregateFail(mainFlow)
  \/ DropOk(mainFlow)
  \/ DropFail(mainFlow)

SpecSuite == InitSuite /\ [][NextSuite]_vars

-----------------------------------------------------------------------------
(* Claims *)

IsPrefix(s, t) == Len(s) <= Len(t) /\ SubSeq(t, 1, Len(s)) = s

\* the drops of one dropResourceCollections(db, colls) when none fails: each
\* name's drop issued, then answered, in the order of colls
ExpectedEvents(colls) ==
  [k \in 1..(2 * Len(colls)) |->
     IF k % 2 = 1 THEN <<"issue", colls[(k + 1) \div 2]>> ELSE <<"done", colls[k \div 2]>>]

DropErrors == {"failed", "ns not found"}

DropsInFlight(f) == {r \in pending[f] : r.kind = "drop"}

\* C1 as stated: every createClient(A) after the first returns the very object
\* the first one returned.
C1_IdenticalHandleObject ==
  \A a \in Addresses : \A h \in laterReturns[a] : h.obj = firstReturn[a].obj

\* C1, amended: successive successful createClient(A) calls return handles of
\* one and the same client and db; the first call returns a fresh {client, db}
\* object, every later call returns the one object held in the cache.
C1_SameClientAndDb ==
  \A a \in Addresses : \A h \in laterReturns[a] :
    /\ h.client = firstReturn[a].client
    /\ h.db = firstReturn[a].db
    /\ h = clientCache[a]
    /\ firstReturn[a].obj = <<h.client, "returned">>

C1_Witness == \E a \in Addresses : laterReturns[a] # {}

\* C2: whatever the interleaving of createClient calls, at most one session is
\* ever opened per address.
C2_OneSessionPerAddress ==
  \A a \in Addresses : Cardinality({c \in DOMAIN sessions : sessions[c].addr = a}) <= 1

\* a step in which a createClient ends without a session having been opened
ConnectRejected ==
  \E f \in Flows : call[f].op = "createClient" /\ call'[f].op = "idle" /\ sessions' = sessions

FailedFor(a) == last.op = "createClient" /\ last.result = "threw" /\ last.url = a

\* C3: a createClient(A) whose connect fails throws, leaves the cache as it was
\* and without an entry for A, and the createClient(A) that follows connects
\* again instead of returning a cached handle.
C3_FailureNotCached ==
  /\ [](\A a \in Addresses : FailedFor(a) => clientCache[a] = NoHandle)
  /\ [][ConnectRejected =>
          /\ clientCache' = clientCache
          /\ last'.op = "createClient" /\ last'.result = "threw"]_vars
  /\ [][\A a \in Addresses :
          FailedFor(a) /\ started' = started + 1
            => \/ last' = last
               \/ ~(last'.op = "createClient" /\ last'.url = a)]_vars

C3_Witness ==
  \E a \in Addresses :
    /\ FailedFor(a)
    /\ call[mainFlow].op = "createClient" /\ call[mainFlow].url = a
    /\ \E r \in pending[mainFlow] : r.kind = "connect" /\ r.url = a

\* C4: dropResourceCollections issues its drops in the order of collections,
\* the next one only when the one before is answered, never two at a time,
\* and returns only when the last one is answered.
C4_DropsOneByOneInOrder ==
  \A f \in Flows :
    LET d == dropLog[f]
        n == Len(d.events)
    IN  /\ Cardinality(DropsInFlight(f)) <= 1
        /\ d.ended = "running" =>
             /\ IsPrefix(d.events, ExpectedEvents(d.colls))
             /\ n % 2 = 1
             /\ DropsInFlight(f) = {DropReq(call[f].db, d.colls[(n + 1) \div 2])}
        /\ d.ended = "returned" =>
             /\ d.events = ExpectedEvents(d.colls)
             /\ DropsInFlight(f) = {}
        /\ d.ended = "threw" =>
             /\ IsPrefix(SubSeq(d.events, 1, n - 1), ExpectedEvents(d.colls))
             /\ DropsInFlight(f) = {}

C4_Witness ==
  \E f \in Flows :
    /\ dropLog[f].ended = "returned"
    /\ Len(dropLog[f].colls) >= 2
    /\ dropLog[f].colls[1] # dropLog[f].colls[2]

\* C5: when the drop of the i-th name fails, dropResourceCollections throws,
\* issues no drop for a later name, and the names before i stay dropped.
C5_FailFast ==
  \A f \in Flows :
    LET d == dropLog[f]
        n == Len(d.events)
    IN  /\ \A k \in 1..n : d.events[k][1] \in DropErrors => k = n /\ d.ended = "threw"
        /\ d.ended = "threw" =>
             /\ n % 2 = 0
             /\ d.events[n] \in {<<e, d.colls[n \div 2]>> : e \in DropErrors}
             /\ SubSeq(d.events, 1, n - 1) = SubSeq(ExpectedEvents(d.colls), 1, n - 1)
             /\ DropsInFlight(f) = {}
             /\ call[f].op # "dropResourceCollections"
             /\ last.op = "dropResourceCollections" =>
                  /\ last.result = "threw"
                  /\ \A k \in 1..((n \div 2) - 1) : store[d.colls[k]] = <<>>

C5_Witness ==
  \E f \in Flows :
    /\ dropLog[f].ended = "threw"
    /\ Len(dropLog[f].events) = 4
    /\ last.op = "dropResourceCollections"
    /\ dropLog[f].colls[1] # dropLog[f].colls[2]

\* the members that are active and that an active subscription refers to, in
\* the order of the member collection, each reduced to its _id
ActiveSubscribers(st) ==
  LET subscribed(m) == \E s \in Range(st["subscription"]) :
                          s.active = TRUE /\ s.member.reference = m._id
      ms == SelectSeq(st["member"], LAMBDA m : m.active = TRUE /\ subscribed(m))
  IN  [k \in DOMAIN ms |-> [_id |-> ms[k]._id]]

\* no call is in progress: the call that finished last has just handed its
\* result to the caller, who has not made the next call yet
AtRest == \A f \in Flows : ~Suspended(f)

ReturnedAggregate == AtRest /\ last.op = "aggregate" /\ last.result = "returned"

\* C6: aggregate with the active-subscribers pipeline on 'member' returns exactly
\* the _ids of the active members that an active subscription refers to: nothing
\* for a lone inactive member, [{_id: M1}] for an active M1 with an active
\* subscription that refers to M1.
C6_ActiveSubscribersResult ==
  ReturnedAggregate /\ last.coll = "member" /\ last.pipeline = getActiveSubscribers =>
    /\ last.value = ActiveSubscribers(store)
    /\ store = [member |-> <<Member("M1", FALSE)>>, subscription |-> <<>>]
         => last.value = <<>>
    /\ store = [member |-> <<Member("M1", TRUE)>>,
                subscription |-> <<Subscription("S1", TRUE, "M1")>>]
         => last.value = <<[_id |-> "M1"]>>

C6_Witness ==
  /\ ReturnedAggregate /\ last.coll = "member" /\ last.pipeline = getActiveSubscribers
  /\ store = [member |-> <<Member("M1", TRUE)>>,
              subscription |-> <<Subscription("S1", TRUE, "M1")>>]
  /\ last.value = <<[_id |-> "M1"]>>

InsertsInFlight == {r \in UNION {pending[f] : f \in Flows} : r.kind \in {"insertOne", "insertMany"}}

\* C7: insertResource returns only when the insert is done, so the aggregate made
\* right after it returns runs on a collection that holds every inserted document.
C7_InsertVisibleToNextAggregate ==
  /\ AtRest /\ last.op = "insertResource" /\ last.result = "returned" =>
       /\ Range(last.docs) \subseteq Range(store[last.coll])
       /\ InsertsInFlight = {}
  /\ ReturnedAggregate =>
       /\ Range(last.fresh) \subseteq Range(store[last.coll])
       /\ last.value = RunPipeline(last.pipeline, last.coll, store)
       /\ last.pipeline = matchAll => Range(last.fresh) \subseteq Range(last.value)

C7_Witness ==
  /\ ReturnedAggregate
  /\ Len(last.fresh) = 2
  /\ last.pipeline = matchAll

\* the fixture and query requests the test run has in flight
ScenarioOps == {r \in pending[mainFlow] : r.kind \notin {"connect", "close"}}

CloseRequested ==
  \/ \E r \in pending[mainFlow] : r.kind = "close"
  \/ \E cid \in DOMAIN sessions : sessions[cid].closes > 0

\* C8: in a test run, every fixture and query request goes to the one session
\* opened for dbUrl while that session is open; the run calls close once at
\* most, in the root after hook when no scenario call is still running, and a
\* run that opened the session ends with it closed exactly once.
C8_OneSessionClosedOnce ==
  /\ Len(sessions) <= 1
  /\ \A r \in ScenarioOps :
       /\ r.client = 1
       /\ sessions[1].addr = dbUrl
       /\ sessions[1].closes = 0
       /\ ~CloseRequested
  /\ runner.closeCalls <= 1
  /\ \A cid \in DOMAIN sessions : sessions[cid].closes <= runner.closeCalls
  /\ CloseRequested \/ runner.closeCalls > 0 =>
       runner.at = "done" /\ ~Suspended(mainFlow) /\ ScenarioOps = {}
  /\ runner.at = "done" /\ pending[mainFlow] = {} /\ sessions # <<>> =>
       sessions[1].closes = 1 /\ runner.closeCalls = 1

\* a whole run, both tests passed, its session closed
C8_Witness ==
  /\ runner.at = "done"
  /\ runner.verdict = [t \in {"inactive it", "subscription it"} |-> "passed"]
  /\ pending[mainFlow] = {}
  /\ sessions # <<>> /\ sessions[1].closes = 1

MidLoop(f) == call[f].op = "dropResourceCollections" /\ call[f].i > 1

StepOf(g) == call'[g] # call[g] \/ pending'[g] # pending[g]

\* C9 as stated: while a flow's dropResourceCollections has dropped some but not
\* all of its collections, no other flow takes a step.
C9_LoopWithoutYield ==
  [][\A f, g \in Flows : f # g /\ MidLoop(f) => ~StepOf(g)]_vars

\* C9, amended: the loop is suspended at every drop and other flows do take
\* steps between two of its drops; their steps leave the loop where it is, and
\* the flow still has exactly the drop of its current name in flight, the
\* earlier names' drops issued and answered in order before it.
C9_LoopKeepsItsPlace ==
  /\ [](\A f \in Flows :
          call[f].op = "dropResourceCollections" =>
            /\ DropsInFlight(f) = {DropReq(call[f].db, call[f].colls[call[f].i])}
            /\ dropLog[f].events =
                 SubSeq(ExpectedEvents(call[f].colls), 1, 2 * call[f].i - 1))
  /\ [][\A f, g \in Flows :
          f # g /\ StepOf(g) =>
            call'[f] = call[f] /\ pending'[f] = pending[f] /\ dropLog'[f] = dropLog[f]]_vars

C9_Witness == \A f \in Flows : MidLoop(f)

\* a step that answers the drop of a collection that does not exist
MissingDropAnswered(f) ==
  \E r \in DropsInFlight(f) : r \notin pending'[f] /\ store[r.coll] = <<>>

\* C10: dropping a collection that was never created leaves the connection cache
\* as it was, and leaves the sessions, the other collections and the caller in a
\* state in which later inserts, aggregates and drops go through.
C10_MissingDropHarmless ==
  [][\A f \in Flows :
       MissingDropAnswered(f) =>
         /\ clientCache' = clientCache
         /\ sessions' = sessions
         /\ store' = store
         /\ \/ call'[f].op = "idle"
            \/ call'[f].op = "dropResourceCollections" /\ DropsInFlight(f)' # {}]_vars

C10_Witness ==
  \E c \in Collections :
    /\ \E k \in DOMAIN dropLog[mainFlow].events :
         dropLog[mainFlow].events[k] = <<"ns not found", c>>
    /\ last.op = "insertResource" /\ last.result = "returned" /\ last.coll # c
    /\ clientCache[dbUrl] # NoHandle

-----------------------------------------------------------------------------
(* Claims C11 to C20 *)

InsertsOf(f) == {r \in pending[f] : r.kind \in {"insertOne", "insertMany"}}

\* the one request an insertResource call is to make: insertMany with the whole
\* array for an array, insertOne with the document otherwise
TheInsert(c) ==
  Req(IF c.isArray THEN "insertMany" ELSE "insertOne", "", <<>>, c.db, c.coll, c.docs, <<>>, TRUE)

\* C12: from its start to its end an insertResource call has exactly one insert
\* request in flight, made when the call starts and never made again: insertMany
\* carrying the whole sequence when the resource is a sequence, insertOne
\* carrying the document when it is a single document.
C12_OneInsertOfTheRightKind ==
  /\ [](\A f \in Flows : call[f].op = "insertResource" => InsertsOf(f) = {TheInsert(call[f])})
  /\ [][\A f \in Flows :
          /\ call[f].op = "insertResource" => InsertsOf(f)' \subseteq InsertsOf(f)
          /\ call[f].op = "idle" /\ call'[f].op = "insertResource" =>
                pending'[f] \ pending[f] = {TheInsert(call'[f])}]_vars

\* an insertResource of a two-document array, its insertMany in flight
C12_Witness ==
  /\ call[mainFlow].op = "insertResource"
  /\ call[mainFlow].isArray /\ Len(call[mainFlow].docs) = 2
  /\ \E r \in pending[mainFlow] : r.kind = "insertMany" /\ r.docs = call[mainFlow].docs

C14_CacheHitFrame ==
  [][\A f \in Flows, url \in Addresses, options \in OptionArgs :
       createClient(f, url, options) /\ clientCache[url] # NoHandle
       => /\ last'.op = "createClient" /\ last'.result = "returned"
          /\ last'.handle = clientCache[url]
          /\ sessions' = sessions
          /\ clientCache' = clientCache
          /\ pending' = pending /\ call' = call]_vars

\* a createClient that has returned the cached handle
C14_Witness ==
  /\ last.op = "createClient" /\ last.result = "returned"
  /\ last.handle # NoHandle
  /\ last.handle = clientCache[last.url]

\* the two options createClient sets itself
ForcedOpts == {"useNewUrlParser", "useUnifiedTopology"}

\* C18: the options of every connect request hold every key of the caller's
\* options, each but the two forced ones with the caller's value, and
\* useNewUrlParser and useUnifiedTopology with the value true, also when the
\* call has no options or options that set the two keys themselves.
C18_ConnectionOptsMerged ==
  \A f \in Flows : \A r \in pending[f] :
    r.kind = "connect" =>
      LET given == IF call[f].options = Undefined THEN {} ELSE DOMAIN call[f].options IN
        /\ DOMAIN r.opts = given \cup ForcedOpts
        /\ \A k \in given \ ForcedOpts : r.opts[k] = call[f].options[k]
        /\ \A k \in ForcedOpts : r.opts[k] = "true"

\* a connect in flight for a call whose options set useNewUrlParser to false
C18_Witness ==
  \E r \in pending[mainFlow] :
    /\ r.kind = "connect"
    /\ call[mainFlow].options # Undefined
    /\ call[mainFlow].options.useNewUrlParser = "false"
    /\ r.opts.poolSize = "5"

\* C20: a createClient call for an address whose cached client has been closed
\* returns the cached handle, closed as it is; it opens no session and makes no
\* connect request.
C20_ClosedHandleServedFromCache ==
  [][\A f \in Flows, url \in Addresses, options \in OptionArgs :
       /\ createClient(f, url, options)
       /\ clientCache[url] # NoHandle
       /\ ~IsOpen(clientCache[url].client)
       => /\ last'.op = "createClient" /\ last'.result = "returned"
          /\ last'.handle = clientCache[url]
          /\ ~last'.connected
          /\ Len(sessions') = Len(sessions)
          /\ \A r \in pending'[f] : r.kind # "connect"]_vars

\* a createClient that has returned the cached handle of a closed session
C20_Witness ==
  /\ last.op = "createClient" /\ last.result = "returned"
  /\ last.handle = clientCache[last.url]
  /\ last.handle.client \in DOMAIN sessions
  /\ ~last.connected

\* the aggregate requests a flow has in flight
AggregatesOf(f) == {r \in pending[f] : r.kind = "aggregate"}

\* C15: the one request of an aggregate call carries the caller's collection
\* name and pipeline as given, and the call returns what the engine produces
\* for that pipeline, every document of it and in the engine's order.
C15_PipelineAndResultUntouched ==
  /\ [](\A f \in Flows : call[f].op = "aggregate" =>
          AggregatesOf(f) = {Req("aggregate", "", <<>>, call[f].db, call[f].coll, <<>>,
                                 call[f].pipeline, TRUE)})
  /\ [][\A f \in Flows :
          call[f].op = "aggregate" /\ call'[f].op = "idle" /\ last'.result = "returned"
          => last'.value = RunPipeline(call[f].pipeline, call[f].coll, store)]_vars

\* an aggregate that has returned two documents, in the collection's order
C15_Witness ==
  /\ last.op = "aggregate" /\ last.result = "returned"
  /\ Len(last.value) = 2
  /\ last.value = store[last.coll]

\* C16: when the driver rejects the insert of an insertResource call or the
\* aggregate of an aggregate call, the call ends by throwing the driver's error
\* as it is, and makes no further request.
C16_FailuresSurfaceOnce ==
  [][\A f \in Flows :
       /\ InsertFail(f) /\ call[f].op = "insertResource" =>
            \E r \in InsertsOf(f) :
              /\ last'.op = "insertResource" /\ last'.result = "threw"
              /\ last'.error = InsertError(r)
              /\ call'[f] = Idle /\ pending'[f] = pending[f] \ {r}
       /\ AggregateFail(f) =>
            \E r \in AggregatesOf(f) :
              /\ last'.op = "aggregate" /\ last'.result = "threw"
              /\ last'.error = AggregateError(r)
              /\ call'[f] = Idle /\ pending'[f] = pending[f] \ {r}]_vars

\* an insertResource that has thrown the driver's duplicate-key error
C16_Witness ==
  /\ last.op = "insertResource" /\ last.result = "threw"
  /\ last.error = "E11000 duplicate key"

\* C19: a cache entry, once set, is never removed or replaced.
C19_CacheOnlyGrows ==
  [][\A a \in Addresses : clientCache[a] # NoHandle => clientCache'[a] = clientCache[a]]_vars

\* an insert request in flight that the database will reject as a duplicate
DuplicateAhead ==
  \E r \in InsertsOf(mainFlow) : FirstDup(store[r.coll], r.docs) > 0

\* C17: in a test run none of whose hooks has failed so far, 'member' is empty
\* once the first scenario's after hook is over; 'subscription' is empty, with
\* 'member' still seeded, once the nested scenario's after hook is over; the
\* database is empty once the second scenario's after hook is over.  The member
\* insert of the second scenario then meets no duplicate _id, and neither does
\* any insert of a run started on what such a run leaves, an empty database.
C17_SeededCollectionsDropped ==
  ~runner.hookFailed =>
    /\ runner.at = "active before" /\ ~runner.awaiting => store["member"] = <<>>
    /\ runner.at = "active after" /\ ~runner.awaiting =>
         store["subscription"] = <<>> /\ store["member"] # <<>>
    /\ runner.at \in {"root after", "done"} => \A c \in Collections : store[c] = <<>>
    /\ runner.at = "active before" => ~DuplicateAhead
    /\ ~runner.leftovers => ~DuplicateAhead

\* a run is over, every hook of it succeeded and nothing is left in the database
C17_Witness ==
  /\ runner.at = "done" /\ ~runner.hookFailed
  /\ runner.verdict["subscription it"] # "not run"
  /\ \A c \in Collections : store[c] = <<>>

====
